---- MODULE Spec2Model ----
(***************************************************************************)
(* A model of app/agent.py: the plan resolver (planner), the data          *)
(* aggregator (data_agent, _year_rows, _field_rows) and the renderer       *)
(* (viz_agent), with the aggregation backend of app/queries.py.            *)
(*                                                                         *)
(* JSON values are records [t, n, s]: t is the Python type, n the number   *)
(* (an int, a bool as 0/1, a float in hundredths) and s the string.  A     *)
(* dict over the plan's keys is a function from Keys to values, a missing  *)
(* key holding Absent.  Texts are sequences of one-character strings, so   *)
(* that the regular expressions of the resolver are matched character by   *)
(* character.                                                              *)
(***************************************************************************)
EXTENDS Integers, Sequences, FiniteSets, TLC

VARIABLES
    pc,         \* where the current call stands
    user_text,  \* the turn's text (planner's user_text)
    prev_plan,  \* the turn's previous plan (planner's prev_plan), {} when none
    interp,     \* the object json.loads returned for the interpretation call
    plan,       \* the plan planner returned / data_agent and viz_agent received
    rows_a,     \* the backend's result for the primary window
    rows_b,     \* the backend's result for the compare window
    payload,    \* what data_agent returned / viz_agent received
    out,        \* what viz_agent returned (caption kind, mark, selection, tooltip)
    err,        \* the error the call raised, NoError when none
    calls,      \* the external calls made so far in this call, in order
    turn        \* the number of planner calls made so far

vars == <<pc, user_text, prev_plan, interp, plan, rows_a, rows_b, payload, out, err, calls, turn>>

----------------------------------------------------------------------------
(* JSON values *)

Absent == [t |-> "absent", n |-> 0, s |-> ""]
None == [t |-> "null", n |-> 0, s |-> ""]
IntV(i) == [t |-> "int", n |-> i, s |-> ""]
BoolV(b) == [t |-> "bool", n |-> IF b THEN 1 ELSE 0, s |-> ""]
FloatV(h) == [t |-> "float", n |-> h, s |-> ""]
StrV(x) == [t |-> "str", n |-> 0, s |-> x]

True == BoolV(TRUE)
False == BoolV(FALSE)

\* The strings of the model that str.strip() empties.
BlankStrings == {"", " ", "  "}

\* What int() and float() read in the strings of the model (float in hundredths);
\* every other string raises ValueError.
IntStrings == ("2021" :> 2021) @@ ("2023" :> 2023) @@ ("2024" :> 2024) @@ ("2" :> 2) @@ ("3" :> 3)
FloatStrings == ("0.5" :> 50) @@ ("2021" :> 202100) @@ ("2023" :> 202300) @@ ("2024" :> 202400)
                @@ ("2" :> 200) @@ ("3" :> 300)

\* Python truthiness, bool(x) and "if x".
Truthy(x) ==
    CASE x.t \in {"absent", "null"} -> FALSE
      [] x.t \in {"int", "bool", "float"} -> x.n # 0
      [] x.t = "str" -> x.s # ""
      [] OTHER -> TRUE

\* dict.get(k): None for a missing key.
Get(d, k) == IF d[k] = Absent THEN None ELSE d[k]

\* "if d": a dict is true when it has a key.
DictTruthy(d) == \E k \in DOMAIN d : d[k] # Absent

TruncDiv(a, b) == IF a >= 0 THEN a \div b ELSE -((-a) \div b)

_is_empty_str(x) == x.t = "str" /\ x.s \in BlankStrings

\* planner's _to_int(x, default), the default given as a value.
_to_int(x, default) ==
    CASE x.t = "int" -> x
      [] x.t = "bool" -> IntV(x.n)
      [] x.t = "float" -> IntV(TruncDiv(x.n, 100))
      [] x.t = "str" /\ x.s \in DOMAIN IntStrings -> IntV(IntStrings[x.s])
      [] OTHER -> default

\* planner's _to_float(x, default).
_to_float(x, default) ==
    CASE x.t = "float" -> x
      [] x.t \in {"int", "bool"} -> FloatV(x.n * 100)
      [] x.t = "str" /\ x.s \in DOMAIN FloatStrings -> FloatV(FloatStrings[x.s])
      [] OTHER -> default

----------------------------------------------------------------------------
(* Texts and the resolver's pattern matchers *)

DigitChars == <<"0", "1", "2", "3", "4", "5", "6", "7", "8", "9">>
Digits == {DigitChars[i] : i \in 1..10}
Letters == {"a", "b", "c", "d", "e", "f", "g", "h", "i", "j", "k", "l", "m",
            "n", "o", "p", "r", "s", "t", "u", "v", "w", "x", "y", "z", "q"}
WordChars == Letters \cup Digits \cup {"_"}
Spaces == {" "}

DigitVal(c) == (CHOOSE i \in 1..10 : DigitChars[i] = c) - 1

\* str.lower() on the upper-case letters of the model's texts.
LowerChar(c) ==
    CASE c = "V" -> "v" [] c = "S" -> "s" [] c = "T" -> "t" [] c = "K" -> "k" [] OTHER -> c
Lower(text) == [i \in 1..Len(text) |-> LowerChar(text[i])]

\* The character at i, "" outside the text.
At(t, i) == IF i \in 1..Len(t) THEN t[i] ELSE ""

\* \b at position i: between the characters i-1 and i.
WordBoundary(t, i) == (At(t, i - 1) \in WordChars) # (At(t, i) \in WordChars)

Lit(t, i, w) == \A k \in 1..Len(w) : At(t, i + k - 1) = w[k]

\* The first position from i on whose character is not in S (a greedy S*).
RECURSIVE SkipWhile(_, _, _)
SkipWhile(t, i, S) == IF At(t, i) \in S THEN SkipWhile(t, i + 1, S) ELSE i

\* The length of the run of digits starting at i.
DigitRun(t, i) == SkipWhile(t, i, Digits) - i

\* int() of the n digits starting at i.
RECURSIVE DecVal(_, _, _)
DecVal(t, i, n) == IF n = 0 THEN 0 ELSE DecVal(t, i, n - 1) * 10 + DigitVal(t[i + n - 1])

NoMatch == [ok |-> FALSE, b |-> 0, e |-> 0]

\* (\d{4})\s*-\s*(\d{4}) at i: b is where the second year starts, e where the match ends.
YearRangeAt(t, i) ==
    LET j == SkipWhile(t, i + 4, Spaces)
        k == SkipWhile(t, j + 1, Spaces)
    IN  IF /\ \A d \in 0..3 : At(t, i + d) \in Digits
           /\ At(t, j) = "-"
           /\ \A d \in 0..3 : At(t, k + d) \in Digits
        THEN [ok |-> TRUE, b |-> k, e |-> k + 4]
        ELSE NoMatch

CompareWords == << <<"v", "s">>, <<"v", "e", "r", "s", "u", "s">>, <<"c", "o", "m", "p", "a", "r", "e">> >>

\* \b(vs|versus|compare)\b at p: where it ends, 0 when it does not match.
CompareWordAt(t, p) ==
    IF \E w \in 1..Len(CompareWords) :
            /\ WordBoundary(t, p)
            /\ Lit(t, p, CompareWords[w])
            /\ WordBoundary(t, p + Len(CompareWords[w]))
    THEN LET w == CHOOSE w \in 1..Len(CompareWords) :
                    /\ Lit(t, p, CompareWords[w])
                    /\ WordBoundary(t, p + Len(CompareWords[w]))
         IN  p + Len(CompareWords[w])
    ELSE 0

\* Whether the rest of the pattern, \b(vs|versus|compare)\b.*?(\d{4})\s*-\s*(\d{4}),
\* matches with the word at p.
CompareTailAt(t, p) ==
    /\ CompareWordAt(t, p) > 0
    /\ \E q \in CompareWordAt(t, p)..Len(t) : YearRangeAt(t, q).ok

\* Whether the whole pattern matches starting at i.
CompareMatchAt(t, i) ==
    /\ YearRangeAt(t, i).ok
    /\ \E p \in YearRangeAt(t, i).e..Len(t) : CompareTailAt(t, p)

Min(S) == CHOOSE x \in S : \A y \in S : x <= y

\* re.search: the leftmost start; each lazy .*? stops at the first place from
\* which the rest matches.  The result is None or the four numbers.
_parse_compare_ranges(text) ==
    LET t == Lower(text)
        starts == {i \in 1..Len(t) : CompareMatchAt(t, i)}
    IN  IF starts = {} THEN <<>>
        ELSE LET i == Min(starts)
                 r1 == YearRangeAt(t, i)
                 p == Min({x \in r1.e..Len(t) : CompareTailAt(t, x)})
                 q == Min({x \in CompareWordAt(t, p)..Len(t) : YearRangeAt(t, x).ok})
                 r2 == YearRangeAt(t, q)
             IN  <<DecVal(t, i, 4), DecVal(t, r1.b, 4), DecVal(t, q, 4), DecVal(t, r2.b, 4)>>

\* \s*[:=]?\s* from i: where the number must start.
AfterSeparator(t, i) ==
    LET j == SkipWhile(t, i, Spaces)
    IN  IF At(t, j) \in {":", "="} THEN SkipWhile(t, j + 1, Spaces) ELSE j

\* (\d{1,max})\b at i.
ShortNumberAt(t, i, max) ==
    /\ DigitRun(t, i) \in 1..max
    /\ At(t, i + DigitRun(t, i)) \notin WordChars

Joiners == {"_", " ", "-"}

\* \btop[_\s-]*k at i: where it ends, 0 when it does not match.
TopKWordAt(t, i) ==
    LET j == SkipWhile(t, i + 3, Joiners)
    IN  IF WordBoundary(t, i) /\ Lit(t, i, <<"t", "o", "p">>) /\ At(t, j) = "k" THEN j + 1 ELSE 0

_parse_top_k(text) ==
    LET t == Lower(text)
        numberAt(i) == AfterSeparator(t, TopKWordAt(t, i))
        starts == {i \in 1..Len(t) : TopKWordAt(t, i) > 0 /\ ShortNumberAt(t, numberAt(i), 4)}
    IN  IF starts = {} THEN None
        ELSE LET j == numberAt(Min(starts)) IN IntV(DecVal(t, j, DigitRun(t, j)))

LevelWord == <<"l", "e", "v", "e", "l">>
FieldWord == <<"f", "i", "e", "l", "d">>
ScoreWord == <<"s", "c", "o", "r", "e">>
MinWord == <<"m", "i", "n">>
ThresholdWord == <<"t", "h", "r", "e", "s", "h", "o", "l", "d">>

\* \b(field[_\s-]*level|level) at i: where it ends, 0 when it does not match.
LevelWordAt(t, i) ==
    LET j == SkipWhile(t, i + 5, Joiners)
    IN  IF ~WordBoundary(t, i) THEN 0
        ELSE IF Lit(t, i, FieldWord) /\ Lit(t, j, LevelWord) THEN j + 5
        ELSE IF Lit(t, i, LevelWord) THEN i + 5
        ELSE 0

_parse_field_level(text) ==
    LET t == Lower(text)
        numberAt(i) == AfterSeparator(t, LevelWordAt(t, i))
        starts == {i \in 1..Len(t) : LevelWordAt(t, i) > 0 /\ ShortNumberAt(t, numberAt(i), 2)}
    IN  IF starts = {} THEN None
        ELSE LET j == numberAt(Min(starts)) IN IntV(DecVal(t, j, DigitRun(t, j)))

\* \b(field[_\s-]*score[_\s-]*min|threshold|score) at i: where it ends, 0 when it
\* does not match.
ScoreWordAt(t, i) ==
    LET j == SkipWhile(t, i + 5, Joiners)
        k == SkipWhile(t, j + 5, Joiners)
    IN  IF ~WordBoundary(t, i) THEN 0
        ELSE IF Lit(t, i, FieldWord) /\ Lit(t, j, ScoreWord) /\ Lit(t, k, MinWord) THEN k + 3
        ELSE IF Lit(t, i, ThresholdWord) THEN i + 9
        ELSE IF Lit(t, i, ScoreWord) THEN i + 5
        ELSE 0

\* The hundredths of the n fraction digits starting at i (float() of ".dd").
Hundredths(t, i, n) ==
    IF n = 0 THEN 0
    ELSE IF n = 1 THEN DigitVal(t[i]) * 10
    ELSE DigitVal(t[i]) * 10 + DigitVal(t[i + 1])

\* (0?\.\d+|\d+(\.\d+)?)\b at i: [ok, v] with v the float in hundredths.  The first
\* alternative is tried first; the second gives its fraction up when no \b follows it.
DecimalAt(t, i) ==
    LET z == IF At(t, i) = "0" THEN i + 1 ELSE i
        zf == DigitRun(t, z + 1)
        n == DigitRun(t, i)
        f == DigitRun(t, i + n + 1)
    IN  IF At(t, z) = "." /\ zf >= 1 /\ At(t, z + 1 + zf) \notin WordChars
        THEN [ok |-> TRUE, v |-> Hundredths(t, z + 1, zf)]
        ELSE IF At(t, i) = "." /\ DigitRun(t, i + 1) >= 1
                /\ At(t, i + 1 + DigitRun(t, i + 1)) \notin WordChars
        THEN [ok |-> TRUE, v |-> Hundredths(t, i + 1, DigitRun(t, i + 1))]
        ELSE IF n >= 1 /\ At(t, i + n) = "." /\ f >= 1 /\ At(t, i + n + 1 + f) \notin WordChars
        THEN [ok |-> TRUE, v |-> DecVal(t, i, n) * 100 + Hundredths(t, i + n + 1, f)]
        ELSE IF n >= 1 /\ At(t, i + n) \notin WordChars
        THEN [ok |-> TRUE, v |-> DecVal(t, i, n) * 100]
        ELSE [ok |-> FALSE, v |-> 0]

_parse_field_score_min(text) ==
    LET t == Lower(text)
        numberAt(i) == AfterSeparator(t, ScoreWordAt(t, i))
        starts == {i \in 1..Len(t) : ScoreWordAt(t, i) > 0 /\ DecimalAt(t, numberAt(i)).ok}
    IN  IF starts = {} THEN None
        ELSE FloatV(DecimalAt(t, numberAt(Min(starts))).v)

DoctypeWords == << <<"a", "r", "t", "i", "c", "l", "e">>, <<"p", "r", "e", "p", "r", "i", "n", "t">>,
                   <<"c", "o", "n", "f", "e", "r", "e", "n", "c", "e">>, <<"j", "o", "u", "r", "n", "a", "l">>,
                   <<"p", "r", "o", "c", "e", "e", "d", "i", "n", "g", "s">> >>
DoctypeNames == <<"article", "preprint", "conference", "journal", "proceedings">>

\* re.search(rf"\b{k}\b", t)
HasWord(t, w) ==
    \E i \in 1..Len(t) : WordBoundary(t, i) /\ Lit(t, i, w) /\ WordBoundary(t, i + Len(w))

\* The first name of the list, in the list's order, that the text holds as a word.
_parse_doctype(text) ==
    LET t == Lower(text)
        found == {k \in 1..Len(DoctypeWords) : HasWord(t, DoctypeWords[k])}
    IN  IF found = {} THEN None ELSE StrV(DoctypeNames[Min(found)])

----------------------------------------------------------------------------
(* The texts of the model *)

FormatYear(y) ==
    <<DigitChars[(y \div 1000) + 1], DigitChars[((y \div 100) % 10) + 1],
      DigitChars[((y \div 10) % 10) + 1], DigitChars[(y % 10) + 1]>>

RangeText(a1, a2, b1, b2, sep) ==
    FormatYear(a1) \o <<"-">> \o FormatYear(a2) \o sep \o FormatYear(b1) \o <<" ", "-", " ">> \o FormatYear(b2)

\* Separators the compare pattern accepts, and two it does not: a word that is
\* none of vs/versus/compare, and a "vs" with no word boundary around it.
MatchingSeparators == {<<" ", "v", "s", " ">>, <<" ", "V", "S", ".", " ">>,
                       <<" ", "v", "e", "r", "s", "u", "s", " ">>}
OtherSeparators == {<<" ", "a", "n", "d", " ">>, <<"v", "s">>}

\* Texts with two year ranges: every separator around one set of years, and a
\* second set of years (the first range descending) with " vs ".
RangeTexts ==
    {RangeText(2020, 2022, 2023, 2024, sep) : sep \in MatchingSeparators \cup OtherSeparators}
    \cup {RangeText(2019, 2018, 2021, 2021, <<" ", "v", "s", " ">>)}

EmptyText == <<>>

\* "make it red": no matcher finds anything in it.
StyleText == <<"m", "a", "k", "e", " ", "i", "t", " ", "r", "e", "d">>

\* "top_k 2", "level 2, score 0.5", "preprint articles"
FilterTexts ==
    {<<"t", "o", "p", "_", "k", " ", "2">>,
     <<"l", "e", "v", "e", "l", " ", "2", ",", " ", "s", "c", "o", "r", "e", " ", "0", ".", "5">>,
     <<"p", "r", "e", "p", "r", "i", "n", "t", " ", "a", "r", "t", "i", "c", "l", "e", "s">>}

Texts == {EmptyText, StyleText} \cup FilterTexts \cup RangeTexts

\* What the five matchers find in a text: planner's cmp, tk, fs, fl and dt.
MatchText(text) ==
    [cmp |-> _parse_compare_ranges(text), tk |-> _parse_top_k(text),
     fs |-> _parse_field_score_min(text), fl |-> _parse_field_level(text),
     dt |-> _parse_doctype(text)]

\* MatchText on the texts of the model, tabulated (@@ makes the table explicit).
TextMatches == [text \in Texts |-> MatchText(text)] @@ <<>>

----------------------------------------------------------------------------
(* The plan resolver *)

InheritKeys == {"year_from", "year_to", "doctype", "field_level", "field_score_min", "top_k",
                "color", "mark", "compare", "compare_year_from", "compare_year_to"}
Keys == {"chart_type"} \cup InheritKeys

ChartTypes == {"papers_by_year", "papers_by_field"}
MarkTypes == {"bar", "line", "area"}

\* The empty dict; also planner's prev_plan = None, which it treats the same way.
EmptyDict == [k \in Keys |-> Absent]

\* The defaults of plan.setdefault and of the type normalisation.
Defaults ==
    [year_from |-> IntV(2020), year_to |-> IntV(2024), doctype |-> None,
     field_level |-> IntV(1), field_score_min |-> FloatV(30), top_k |-> IntV(25),
     color |-> None, mark |-> StrV("bar"), compare |-> False,
     compare_year_from |-> None, compare_year_to |-> None]

\* "Ensure chart_type exists".
EnsureChartType(p, prev) ==
    IF Truthy(Get(p, "chart_type")) THEN p
    ELSE [p EXCEPT !["chart_type"] =
            IF DictTruthy(prev) THEN Get(prev, "chart_type") ELSE StrV("papers_by_year")]

\* Inherit with the three compare keys left out of inherit_keys.
InheritWithoutCompare(p, prev) ==
    IF DictTruthy(prev)
    THEN [k \in Keys |->
            IF k \in InheritKeys \ {"compare", "compare_year_from", "compare_year_to"}
               /\ p[k] \in {Absent, None}
            THEN Get(prev, k) ELSE p[k]]
    ELSE p

\* Inherit for the missing keys only, not for the null ones.
InheritMissingOnly(p, prev) ==
    IF DictTruthy(prev)
    THEN [k \in Keys |-> IF k \in InheritKeys /\ p[k] = Absent THEN Get(prev, k) ELSE p[k]]
    ELSE p

\* "Inherit missing keys from prev_plan (including compare)".
Inherit(p, prev) ==
    IF DictTruthy(prev)
    THEN [k \in Keys |-> IF k \in InheritKeys /\ p[k] \in {Absent, None} THEN Get(prev, k) ELSE p[k]]
    ELSE p

\* FillDefaults with the top_k default of queries.papers_by_field.
FillDefaultsTopK30(p) ==
    [k \in Keys |->
        IF k \in InheritKeys /\ p[k] = Absent
        THEN (IF k = "top_k" THEN IntV(30) ELSE Defaults[k]) ELSE p[k]]

\* "Fill defaults": setdefault sets a key only when it is missing.
FillDefaults(p) ==
    [k \in Keys |-> IF k \in InheritKeys /\ p[k] = Absent THEN Defaults[k] ELSE p[k]]

\* "if tk is not None: plan["top_k"] = tk", and the like.
Override(p, k, v) == IF v = None THEN p ELSE [p EXCEPT ![k] = v]

\* RegexFallback with the compare ranges used only when the plan says nothing
\* about compare.
RegexFallbackWhenUnset(p, text) ==
    LET m == TextMatches[text]
        cmp == m.cmp
        p1 == IF cmp = <<>> \/ Get(p, "compare") # None THEN p
              ELSE [p EXCEPT !["compare"] = True,
                             !["year_from"] = IntV(cmp[1]), !["year_to"] = IntV(cmp[2]),
                             !["compare_year_from"] = IntV(cmp[3]), !["compare_year_to"] = IntV(cmp[4])]
        p2 == Override(p1, "top_k", m.tk)
        p3 == Override(p2, "field_score_min", m.fs)
        p4 == Override(p3, "field_level", m.fl)
    IN  Override(p4, "doctype", m.dt)

\* "Regex fallback for compare & filters".
RegexFallback(p, text) ==
    LET m == TextMatches[text]
        cmp == m.cmp
        p1 == IF cmp = <<>> THEN p
              ELSE [p EXCEPT !["compare"] = True,
                             !["year_from"] = IntV(cmp[1]), !["year_to"] = IntV(cmp[2]),
                             !["compare_year_from"] = IntV(cmp[3]), !["compare_year_to"] = IntV(cmp[4])]
        p2 == Override(p1, "top_k", m.tk)
        p3 == Override(p2, "field_score_min", m.fs)
        p4 == Override(p3, "field_level", m.fl)
    IN  Override(p4, "doctype", m.dt)

\* "Normalize empty strings".
NormalizeEmptyStrings(p) ==
    [p EXCEPT !["doctype"] = IF _is_empty_str(Get(p, "doctype")) THEN None ELSE @,
              !["color"] = IF _is_empty_str(Get(p, "color")) THEN None ELSE @,
              !["mark"] = IF _is_empty_str(Get(p, "mark")) THEN StrV("bar") ELSE @]

\* "Type normalize".
TypeNormalize(p) ==
    [p EXCEPT !["year_from"] = _to_int(Get(p, "year_from"), IntV(2020)),
              !["year_to"] = _to_int(Get(p, "year_to"), IntV(2024)),
              !["field_level"] = _to_int(Get(p, "field_level"), IntV(1)),
              !["field_score_min"] = _to_float(Get(p, "field_score_min"), FloatV(30)),
              !["top_k"] = _to_int(Get(p, "top_k"), IntV(25))]

\* "Normalize mark" that fills a missing mark only.
NormalizeMarkMissingOnly(p) ==
    IF Get(p, "mark") \in {Absent, None} THEN [p EXCEPT !["mark"] = StrV("bar")] ELSE p

\* "Normalize mark".
NormalizeMark(p) ==
    IF Get(p, "mark").t = "str" /\ Get(p, "mark").s \in MarkTypes THEN p
    ELSE [p EXCEPT !["mark"] = StrV("bar")]

\* NormalizeCompare without the reset after a failed coercion.
NormalizeCompareNoReset(p) ==
    LET off == [p EXCEPT !["compare"] = False,
                         !["compare_year_from"] = None, !["compare_year_to"] = None]
    IN  IF ~Truthy(Get(p, "compare")) THEN off
        ELSE IF Get(p, "compare_year_from") = None \/ Get(p, "compare_year_to") = None THEN off
        ELSE [p EXCEPT !["compare"] = True,
                       !["compare_year_from"] = _to_int(Get(p, "compare_year_from"), None),
                       !["compare_year_to"] = _to_int(Get(p, "compare_year_to"), None)]

\* "Normalize compare".
NormalizeCompare(p) ==
    LET off == [p EXCEPT !["compare"] = False,
                         !["compare_year_from"] = None, !["compare_year_to"] = None]
        c_from == _to_int(Get(p, "compare_year_from"), None)
        c_to == _to_int(Get(p, "compare_year_to"), None)
    IN  IF ~Truthy(Get(p, "compare")) THEN off
        ELSE IF Get(p, "compare_year_from") = None \/ Get(p, "compare_year_to") = None THEN off
        ELSE IF c_from = None \/ c_to = None THEN off
        ELSE [p EXCEPT !["compare"] = True,
                       !["compare_year_from"] = c_from, !["compare_year_to"] = c_to]

\* planner, from the object json.loads returned on.
planner(text, prev, obj) ==
    NormalizeCompare(NormalizeMark(TypeNormalize(NormalizeEmptyStrings(
        RegexFallback(FillDefaults(Inherit(EnsureChartType(obj, prev), prev)), text)))))

----------------------------------------------------------------------------
(* The inputs of a turn *)

MaxTurns == 2

\* A dict with the given keys.
Dict(f) == f @@ EmptyDict

\* Objects the interpretation call returns: a subset of the plan's keys, each
\* value of any JSON type.
ChartInterps ==
    {Dict("chart_type" :> StrV("papers_by_field")),
     Dict("chart_type" :> StrV("pie")),
     Dict("chart_type" :> StrV(""))}

YearInterps ==
    {Dict(("chart_type" :> StrV("papers_by_year")) @@ ("year_from" :> IntV(2021)) @@ ("year_to" :> IntV(2023))),
     Dict(("year_from" :> StrV("2021")) @@ ("year_to" :> FloatV(202350))),
     Dict(("year_from" :> StrV("soon")) @@ ("year_to" :> None))}

FilterInterps ==
    {Dict("doctype" :> StrV("article")),
     Dict("doctype" :> StrV("  ")),
     Dict(("field_level" :> IntV(2)) @@ ("field_score_min" :> FloatV(50)) @@ ("top_k" :> IntV(2))),
     Dict(("field_level" :> StrV("deep")) @@ ("field_score_min" :> StrV("high")) @@ ("top_k" :> StrV("many"))),
     Dict(("field_level" :> StrV("2")) @@ ("field_score_min" :> StrV("0.5")) @@ ("top_k" :> StrV("3"))),
     Dict(("field_score_min" :> IntV(1)) @@ ("top_k" :> IntV(-1))),
     Dict("top_k" :> IntV(0))}

StyleInterps ==
    {Dict("color" :> StrV("red")),
     Dict("color" :> StrV("")),
     Dict("mark" :> StrV("line")),
     Dict(("color" :> StrV("red")) @@ ("mark" :> StrV("area"))),
     Dict("mark" :> StrV("pie")),
     Dict("mark" :> StrV(" ")),
     Dict("mark" :> IntV(1))}

CompareInterps ==
    {Dict(("compare" :> True) @@ ("compare_year_from" :> IntV(2023)) @@ ("compare_year_to" :> IntV(2024))),
     Dict(("compare" :> True) @@ ("compare_year_from" :> IntV(2023))),
     Dict(("compare" :> True) @@ ("compare_year_from" :> None) @@ ("compare_year_to" :> IntV(2024))),
     Dict(("compare" :> True) @@ ("compare_year_from" :> StrV("2023")) @@ ("compare_year_to" :> StrV("2024"))),
     Dict(("compare" :> True) @@ ("compare_year_from" :> StrV("n/a")) @@ ("compare_year_to" :> IntV(2024))),
     Dict(("compare" :> True) @@ ("compare_year_from" :> IntV(2023)) @@ ("compare_year_to" :> StrV("n/a"))),
     Dict(("compare" :> False) @@ ("compare_year_from" :> IntV(2023)) @@ ("compare_year_to" :> IntV(2024))),
     Dict(("compare_year_from" :> IntV(2023)) @@ ("compare_year_to" :> IntV(2024))),
     Dict(("compare" :> StrV("yes")) @@ ("compare_year_from" :> FloatV(202300)) @@ ("compare_year_to" :> IntV(2024)))}

Interps ==
    {EmptyDict, [k \in Keys |-> None]}
    \cup ChartInterps \cup YearInterps \cup FilterInterps \cup StyleInterps \cup CompareInterps

\* The (text, interpreted object) pairs of a turn: every object with the empty
\* text, and each text with the objects that set the fields its matchers touch.
TurnInputs ==
    ({EmptyText} \X Interps)
    \cup ({StyleText} \X StyleInterps)
    \cup (FilterTexts \X ({EmptyDict} \cup FilterInterps))
    \cup (RangeTexts \X ({EmptyDict} \cup YearInterps \cup CompareInterps))

\* Previous plans a caller sends on its own: none, and dicts that are no resolved plan.
Prevs ==
    {EmptyDict,
     Dict("chart_type" :> StrV("papers_by_field")),
     Dict(("year_from" :> IntV(2019)) @@ ("mark" :> StrV("scatter"))),
     Dict(("chart_type" :> StrV("papers_by_field")) @@ ("top_k" :> IntV(3)) @@ ("compare" :> True)
          @@ ("compare_year_from" :> IntV(2021)) @@ ("compare_year_to" :> IntV(2022))),
     Dict(("chart_type" :> StrV("donut")) @@ ("compare" :> True) @@ ("compare_year_to" :> IntV(2022))),
     Dict(("doctype" :> StrV("journal")) @@ ("color" :> StrV("blue")) @@ ("compare" :> IntV(1))
          @@ ("compare_year_from" :> StrV("2021")) @@ ("compare_year_to" :> StrV("later")))}

NoPayload == [chart_type |-> None, plan |-> EmptyDict, data |-> <<>>]
NoError == [type |-> "", where |-> "", value |-> None]
NoOut == [answer |-> <<>>, mark |-> None, color |-> None, params |-> <<>>, color_by_group |-> FALSE,
          tooltip |-> <<>>, data |-> <<>>]

----------------------------------------------------------------------------
(* Turns of the resolver: each turn calls planner with a text, the object the
   interpretation call returned, and a previous plan, which is either what
   the caller sends on its own or the plan the last turn returned to it. *)

Init ==
    /\ pc = "idle"
    /\ user_text = EmptyText
    /\ prev_plan = EmptyDict
    /\ interp = EmptyDict
    /\ plan = EmptyDict
    /\ rows_a = <<>>
    /\ rows_b = <<>>
    /\ payload = NoPayload
    /\ out = NoOut
    /\ err = NoError
    /\ calls = <<>>
    /\ turn = 0

Resolve(text, prev, obj) ==
    /\ pc = "idle"
    /\ turn < MaxTurns
    /\ user_text' = text
    /\ prev_plan' = prev
    /\ interp' = obj
    /\ plan' = planner(text, prev, obj)
    /\ pc' = "planned"
    /\ calls' = << <<"interpret">> >>
    /\ turn' = turn + 1
    /\ UNCHANGED <<rows_a, rows_b, payload, out, err>>

\* The first turn of a conversation: the caller sends no previous plan, or one
\* of its own.
FirstTurn ==
    /\ turn = 0
    /\ \E in \in TurnInputs, prev \in Prevs : Resolve(in[1], prev, in[2])

\* A later turn: the caller sends back the plan the turn before returned.
NextTurn ==
    /\ turn > 0
    /\ \E in \in TurnInputs : Resolve(in[1], plan, in[2])

\* planner returns: the caller keeps the plan, the call's arguments are gone.
Return ==
    /\ pc = "planned"
    /\ pc' = "idle"
    /\ user_text' = EmptyText
    /\ prev_plan' = EmptyDict
    /\ interp' = EmptyDict
    /\ calls' = <<>>
    /\ UNCHANGED <<plan, rows_a, rows_b, payload, out, err, turn>>

Next == FirstTurn \/ NextTurn \/ Return

Spec == Init /\ [][Next]_vars

----------------------------------------------------------------------------
(* The aggregation backend and the data aggregator *)

MaxCount == 2

Labels == {"x", "y", "z"}

\* Sequences over S of length at most n with no element of the same key twice.
DistinctSeqs(S, n) ==
    {r \in UNION {[1..m -> S] : m \in 0..n} : \A i, j \in 1..Len(r) : i # j => r[i][1] # r[j][1]}

\* queries.papers_by_year: what the backend may return, one (year, n_papers) row
\* for each year of [year_from, year_to] that has papers.  The query orders by
\* year; its caller reads the rows into a dict and relies on no order, so the
\* rows are taken in any order.
papers_by_year(year_from, year_to) ==
    IF year_to < year_from THEN {<<>>}
    ELSE DistinctSeqs((year_from..year_to) \X (1..MaxCount), year_to - year_from + 1)

\* The fields that have papers with their counts, ORDER BY n_papers DESC.
FieldCounts ==
    {q \in DistinctSeqs(Labels \X (1..MaxCount), Cardinality(Labels)) :
        \A i \in 1..(Len(q) - 1) : q[i][2] >= q[i + 1][2]}

\* The first k rows of them, for every k up to the number of fields.
FieldCountsLimit ==
    [k \in 0..Cardinality(Labels) |-> {SubSeq(r, 1, IF Len(r) < k THEN Len(r) ELSE k) : r \in FieldCounts}]
    @@ <<>>

\* queries.papers_by_field: one (field, n_papers) row for each field that has
\* papers, ORDER BY n_papers DESC (ties in any order), LIMIT top_k.  No call
\* made here passes a limit below 0; it is given no row.
papers_by_field(top_k) ==
    FieldCountsLimit[IF top_k > Cardinality(Labels) THEN Cardinality(Labels)
                     ELSE IF top_k < 0 THEN 0 ELSE top_k]

\* dict.get(key, 0) on the dict {k: v for k, v in rows}: the last row of a key wins.
Lookup(rows, key) ==
    LET at == {i \in 1..Len(rows) : rows[i][1] = key}
    IN  IF at = {} THEN 0 ELSE rows[CHOOSE i \in at : \A j \in at : j <= i][2]

\* _year_rows with a range that leaves year_to out.
_year_rowsExclusive(year_from, year_to, rows) ==
    [i \in 1..(year_to - year_from) |->
        [year |-> year_from + i - 1, n_papers |-> Lookup(rows, year_from + i - 1)]]

\* _year_rows, from the backend's rows on.
_year_rows(year_from, year_to, rows) ==
    [i \in 1..(year_to - year_from + 1) |->
        [year |-> year_from + i - 1, n_papers |-> Lookup(rows, year_from + i - 1)]]

\* _field_rows, from the backend's rows on.
_field_rows(rows) == [i \in 1..Len(rows) |-> [field |-> rows[i][1], n_papers |-> rows[i][2]]]

\* {"group": g, **r} for every row.
Tagged(g, rows) == [i \in 1..Len(rows) |-> [group |-> g] @@ rows[i]]

\* a_map: {r["field"]: int(r["n_papers"]) for r in a_rows}, read with .get(f, 0).
MapGet(frows, f) ==
    LET at == {i \in 1..Len(frows) : frows[i].field = f}
    IN  IF at = {} THEN 0 ELSE frows[CHOOSE i \in at : \A j \in at : j <= i].n_papers

MapKeys(frows) == {frows[i].field : i \in 1..Len(frows)}

\* The sort key with the combined count left out.
RankKeyNoSum(a_rows, b_rows, f) == <<MapGet(a_rows, f), MapGet(b_rows, f), 0>>

\* The key of sorted(): (a + b, a, b).
RankKey(a_rows, b_rows, f) ==
    <<MapGet(a_rows, f) + MapGet(b_rows, f), MapGet(a_rows, f), MapGet(b_rows, f)>>

\* Python's order on tuples of three ints.
TupleLess(u, v) ==
    \/ u[1] < v[1]
    \/ u[1] = v[1] /\ u[2] < v[2]
    \/ u[1] = v[1] /\ u[2] = v[2] /\ u[3] < v[3]

\* sorted(fields, key=..., reverse=True): a set iterates in any order and the
\* sort is stable, so equal keys come out in any order.
Ranked(a_rows, b_rows) ==
    LET fields == MapKeys(a_rows) \cup MapKeys(b_rows)
        n == Cardinality(fields)
    IN  {r \in [1..n -> fields] :
            /\ \A i, j \in 1..n : i # j => r[i] # r[j]
            /\ \A i \in 1..(n - 1) :
                    ~TupleLess(RankKey(a_rows, b_rows, r[i]), RankKey(a_rows, b_rows, r[i + 1]))}

\* ranked[:top_k], a Python slice: a negative top_k counts from the end.
Slice(ranked, top_k) ==
    LET n == Len(ranked)
        stop == IF top_k >= 0 THEN (IF top_k < n THEN top_k ELSE n)
                ELSE (IF n + top_k > 0 THEN n + top_k ELSE 0)
    IN  SubSeq(ranked, 1, stop)

\* The rows of compare mode for the labels kept.
CompareFieldRows(a_rows, b_rows, keep) ==
    [i \in 1..Len(keep) |-> [group |-> "A", field |-> keep[i], n_papers |-> MapGet(a_rows, keep[i])]]
    \o [i \in 1..Len(keep) |-> [group |-> "B", field |-> keep[i], n_papers |-> MapGet(b_rows, keep[i])]]

Max(a, b) == IF a >= b THEN a ELSE b

\* pool = max(top_k * 5, 200)
Pool(top_k) == Max(top_k * 5, 200)

\* The branch of data_agent a chart_type takes, with every other chart_type
\* taken for papers_by_year.
BranchDefaulting(chart_type) ==
    IF chart_type = StrV("papers_by_field") THEN "papers_by_field" ELSE "papers_by_year"

\* The branch of data_agent (and of viz_agent) a chart_type takes.
Branch(chart_type) ==
    IF chart_type = StrV("papers_by_year") THEN "papers_by_year"
    ELSE IF chart_type = StrV("papers_by_field") THEN "papers_by_field"
    ELSE "unsupported"

\* doctype = plan.get("doctype") or None
DoctypeOf(p) == IF Truthy(Get(p, "doctype")) THEN p["doctype"] ELSE None

Payload(p, rows) == [chart_type |-> p["chart_type"], plan |-> p, data |-> rows]

Unsupported(where, chart_type) == [type |-> "ValueError", where |-> where, value |-> chart_type]

\* data_agent, papers_by_year without compare: one backend call.
DataAgentByYear ==
    /\ pc = "planned"
    /\ Branch(plan["chart_type"]) = "papers_by_year"
    /\ ~Truthy(plan["compare"])
    /\ \E a \in papers_by_year(plan["year_from"].n, plan["year_to"].n) :
        /\ rows_a' = a
        /\ payload' = Payload(plan, _year_rows(plan["year_from"].n, plan["year_to"].n, a))
    /\ calls' = calls \o << <<"papers_by_year", plan["year_from"].n, plan["year_to"].n, DoctypeOf(plan)>> >>
    /\ pc' = "aggregated"
    /\ UNCHANGED <<user_text, prev_plan, interp, plan, rows_b, out, err, turn>>

\* data_agent, papers_by_year with compare: window A, then window B.
DataAgentByYearCompare ==
    /\ pc = "planned"
    /\ Branch(plan["chart_type"]) = "papers_by_year"
    /\ Truthy(plan["compare"])
    /\ \E a \in papers_by_year(plan["year_from"].n, plan["year_to"].n) :
        /\ rows_a' = a
        /\ \E b \in papers_by_year(plan["compare_year_from"].n, plan["compare_year_to"].n) :
            /\ rows_b' = b
            /\ payload' = Payload(plan,
                    Tagged("A", _year_rows(plan["year_from"].n, plan["year_to"].n, a))
                    \o Tagged("B", _year_rows(plan["compare_year_from"].n, plan["compare_year_to"].n, b)))
    /\ calls' = calls \o
            << <<"papers_by_year", plan["year_from"].n, plan["year_to"].n, DoctypeOf(plan)>>,
               <<"papers_by_year", plan["compare_year_from"].n, plan["compare_year_to"].n, DoctypeOf(plan)>> >>
    /\ pc' = "aggregated"
    /\ UNCHANGED <<user_text, prev_plan, interp, plan, out, err, turn>>

FieldCall(p, year_from, year_to, top_k) ==
    <<"papers_by_field", year_from, year_to, p["field_level"].n, p["field_score_min"].n, DoctypeOf(p), top_k>>

\* data_agent, papers_by_field without compare: the backend's rows as they are.
DataAgentByField ==
    /\ pc = "planned"
    /\ Branch(plan["chart_type"]) = "papers_by_field"
    /\ ~Truthy(plan["compare"])
    /\ \E a \in papers_by_field(plan["top_k"].n) :
        /\ rows_a' = a
        /\ payload' = Payload(plan, _field_rows(a))
    /\ calls' = calls \o <<FieldCall(plan, plan["year_from"].n, plan["year_to"].n, plan["top_k"].n)>>
    /\ pc' = "aggregated"
    /\ UNCHANGED <<user_text, prev_plan, interp, plan, rows_b, out, err, turn>>

\* data_agent, papers_by_field with compare: both windows with the enlarged pool,
\* the union ranked and cut to top_k.
DataAgentByFieldCompare ==
    /\ pc = "planned"
    /\ Branch(plan["chart_type"]) = "papers_by_field"
    /\ Truthy(plan["compare"])
    /\ \E a \in papers_by_field(Pool(plan["top_k"].n)) :
        /\ rows_a' = a
        /\ \E b \in papers_by_field(Pool(plan["top_k"].n)) :
            /\ rows_b' = b
            /\ \E ranked \in Ranked(_field_rows(a), _field_rows(b)) :
                payload' = Payload(plan,
                    CompareFieldRows(_field_rows(a), _field_rows(b), Slice(ranked, plan["top_k"].n)))
    /\ calls' = calls \o
            <<FieldCall(plan, plan["year_from"].n, plan["year_to"].n, Pool(plan["top_k"].n)),
              FieldCall(plan, plan["compare_year_from"].n, plan["compare_year_to"].n, Pool(plan["top_k"].n))>>
    /\ pc' = "aggregated"
    /\ UNCHANGED <<user_text, prev_plan, interp, plan, out, err, turn>>

\* data_agent, any other chart_type: raise ValueError(f"Unsupported chart_type: ...").
DataAgentUnsupported ==
    /\ pc = "planned"
    /\ Branch(plan["chart_type"]) = "unsupported"
    /\ err' = Unsupported("data_agent", plan["chart_type"])
    /\ pc' = "raised"
    /\ UNCHANGED <<user_text, prev_plan, interp, plan, rows_a, rows_b, payload, out, calls, turn>>

----------------------------------------------------------------------------
(* The renderer *)

Category(branch) == IF branch = "papers_by_year" THEN "year" ELSE "field"

Pick(fields) == <<[name |-> "pick", select |-> [type |-> "point", fields |-> fields]]>>

\* viz_agent's params: the year chart selects by (group, year) in compare mode,
\* the field chart by field in both modes.
Selection(branch, compare) ==
    IF branch = "papers_by_year"
    THEN (IF compare THEN Pick(<<"group", "year">>) ELSE Pick(<<"year">>))
    ELSE Pick(<<"field">>)

\* viz_agent's answer: the parts of the caption.
Answer(branch, p, compare) ==
    IF branch = "papers_by_year"
    THEN IF compare
         THEN <<"Papers by year", p["year_from"], p["year_to"], p["compare_year_from"], p["compare_year_to"]>>
         ELSE <<"Papers by year", p["year_from"], p["year_to"]>>
    ELSE IF compare
         THEN <<"Papers by field", p["year_from"], p["year_to"], p["compare_year_from"], p["compare_year_to"],
                p["field_level"], p["field_score_min"], p["top_k"]>>
         ELSE <<"Papers by field", p["year_from"], p["year_to"],
                p["field_level"], p["field_score_min"], p["top_k"]>>

\* What viz_agent returns for a supported chart_type: the answer, and of the
\* vegaLiteSpec the mark, the selection parameters, the colour encoding and the
\* tooltip.
viz_agent(pl) ==
    LET branch == Branch(pl.chart_type)
        p == pl.plan
        compare == Truthy(Get(p, "compare"))
        color == IF Truthy(Get(p, "color")) THEN p["color"] ELSE None
        mark_type == IF Truthy(Get(p, "mark")) THEN p["mark"] ELSE StrV("bar")
    IN  [answer |-> Answer(branch, p, compare),
         mark |-> mark_type,
         color |-> IF ~compare /\ color # None THEN color ELSE None,
         params |-> Selection(branch, compare),
         color_by_group |-> compare,
         tooltip |-> IF compare THEN <<"group", Category(branch), "n_papers">>
                     ELSE <<Category(branch), "n_papers">>,
         data |-> pl.data]

VizAgent ==
    /\ pc = "aggregated"
    /\ Branch(payload.chart_type) # "unsupported"
    /\ out' = viz_agent(payload)
    /\ pc' = "rendered"
    /\ UNCHANGED <<user_text, prev_plan, interp, plan, rows_a, rows_b, payload, err, calls, turn>>

\* viz_agent, any other chart_type: raise ValueError.
VizAgentUnsupported ==
    /\ pc = "aggregated"
    /\ Branch(payload.chart_type) = "unsupported"
    /\ err' = Unsupported("viz_agent", payload.chart_type)
    /\ pc' = "raised"
    /\ UNCHANGED <<user_text, prev_plan, interp, plan, rows_a, rows_b, payload, out, calls, turn>>

----------------------------------------------------------------------------
(* Calls of data_agent with a plan planner returned, followed by viz_agent on
   what data_agent returned; and calls of viz_agent alone with a payload. *)

\* "2021-2023 vs 2023 - 2024" and the like give the windows of compare mode.
AggRangeText == RangeText(2020, 2022, 2023, 2024, <<" ", "v", "s", " ">>)
EmptyWindowText == RangeText(2019, 2018, 2021, 2021, <<" ", "v", "s", " ">>)

AggInputs ==
    {<<EmptyText, EmptyDict,
       Dict(("chart_type" :> StrV("papers_by_year")) @@ ("year_from" :> IntV(2021)) @@ ("year_to" :> IntV(2023)))>>,
     <<EmptyText, EmptyDict,
       Dict(("year_from" :> IntV(2023)) @@ ("year_to" :> IntV(2021)) @@ ("color" :> StrV("red")))>>,
     <<AggRangeText, EmptyDict, Dict("color" :> StrV("red"))>>,
     <<EmptyWindowText, EmptyDict, Dict("mark" :> StrV("line"))>>,
     <<EmptyText, EmptyDict, Dict(("chart_type" :> StrV("papers_by_field")) @@ ("top_k" :> IntV(2)))>>,
     <<EmptyText, EmptyDict, Dict(("chart_type" :> StrV("papers_by_field")) @@ ("top_k" :> IntV(0)))>>,
     <<AggRangeText, EmptyDict, Dict("chart_type" :> StrV("papers_by_field"))>>,
     <<AggRangeText, EmptyDict, Dict(("chart_type" :> StrV("papers_by_field")) @@ ("top_k" :> IntV(2)))>>,
     <<AggRangeText, EmptyDict, Dict(("chart_type" :> StrV("papers_by_field")) @@ ("top_k" :> IntV(1)))>>,
     <<AggRangeText, EmptyDict, Dict(("chart_type" :> StrV("papers_by_field")) @@ ("top_k" :> IntV(0)))>>,
     <<AggRangeText, EmptyDict, Dict(("chart_type" :> StrV("papers_by_field")) @@ ("top_k" :> IntV(-1)))>>,
     <<EmptyText, EmptyDict,
       Dict(("chart_type" :> StrV("pie")) @@ ("year_from" :> IntV(2021)) @@ ("year_to" :> IntV(2023)))>>,
     <<AggRangeText, EmptyDict, Dict("chart_type" :> StrV("pie"))>>,
     <<EmptyText, Dict(("year_from" :> IntV(2021)) @@ ("year_to" :> IntV(2023))), EmptyDict>>}

AggPlans == {planner(in[1], in[2], in[3]) : in \in AggInputs}

InitAgg ==
    /\ user_text = EmptyText
    /\ prev_plan = EmptyDict
    /\ interp = EmptyDict
    /\ rows_a = <<>>
    /\ rows_b = <<>>
    /\ out = NoOut
    /\ err = NoError
    /\ calls = <<>>
    /\ turn = 0
    /\ \/ pc = "planned" /\ plan \in AggPlans /\ payload = NoPayload
       \/ pc = "aggregated" /\ plan = EmptyDict /\ payload \in {Payload(p, <<>>) : p \in AggPlans}

NextAgg ==
    \/ DataAgentByYear
    \/ DataAgentByYearCompare
    \/ DataAgentByField
    \/ DataAgentByFieldCompare
    \/ DataAgentUnsupported
    \/ VizAgent
    \/ VizAgentUnsupported

SpecAgg == InitAgg /\ [][NextAgg]_vars

----------------------------------------------------------------------------
(* One call of run_multi_agent after the other: planner (the interpretation
   call, json.loads, the resolver), data_agent, viz_agent, each on what the
   one before returned; an exception ends the call.  The backend returns. *)

\* The calls made: one of each kind of plan.
RunInputs ==
    {<<EmptyText, EmptyDict,
       Dict(("chart_type" :> StrV("papers_by_year")) @@ ("year_from" :> IntV(2021)) @@ ("year_to" :> IntV(2023)))>>,
     <<AggRangeText, EmptyDict, Dict("color" :> StrV("red"))>>,
     <<EmptyText, EmptyDict, Dict(("chart_type" :> StrV("papers_by_field")) @@ ("top_k" :> IntV(2)))>>,
     <<AggRangeText, EmptyDict, Dict(("chart_type" :> StrV("papers_by_field")) @@ ("top_k" :> IntV(2)))>>,
     <<AggRangeText, EmptyDict, Dict("chart_type" :> StrV("pie"))>>,
     <<EmptyText, Dict(("year_from" :> IntV(2021)) @@ ("year_to" :> IntV(2023))), EmptyDict>>}

\* planner raises: nothing of the call is left but the exception.
Raise(text, prev, type, made) ==
    /\ pc = "idle"
    /\ turn < MaxTurns
    /\ user_text' = text
    /\ prev_plan' = prev
    /\ err' = [type |-> type, where |-> "planner", value |-> None]
    /\ calls' = made
    /\ pc' = "raised"
    /\ turn' = turn + 1
    /\ UNCHANGED <<interp, plan, rows_a, rows_b, payload, out>>

\* The interpretation call is made again after it raised, and raises again.
InterpretRaisesAfterRetry ==
    /\ pc = "idle"
    /\ \E in \in RunInputs : Raise(in[1], in[2], "APIError", << <<"interpret">>, <<"interpret">> >>)

\* client.chat.completions.create raises.
InterpretRaises ==
    /\ pc = "idle"
    /\ \E in \in RunInputs : Raise(in[1], in[2], "APIError", << <<"interpret">> >>)

\* The call returns and json.loads raises on what it returned.
ParseRaises ==
    /\ pc = "idle"
    /\ \E in \in RunInputs : Raise(in[1], in[2], "JSONDecodeError", << <<"interpret">> >>)

\* The call returns a JSON object and planner returns the plan.
Plan ==
    /\ turn < MaxTurns
    /\ \E in \in RunInputs : Resolve(in[1], in[2], in[3])

\* run_multi_agent returns or raises: nothing of the call stays behind, and the
\* next call starts as the first did.
Finish ==
    /\ pc \in {"rendered", "raised"}
    /\ pc' = "idle"
    /\ user_text' = EmptyText
    /\ prev_plan' = EmptyDict
    /\ interp' = EmptyDict
    /\ plan' = EmptyDict
    /\ rows_a' = <<>>
    /\ rows_b' = <<>>
    /\ payload' = NoPayload
    /\ out' = NoOut
    /\ err' = NoError
    /\ calls' = <<>>
    /\ turn' = 0

NextRun ==
    \/ InterpretRaises
    \/ ParseRaises
    \/ Plan
    \/ DataAgentByYear
    \/ DataAgentByYearCompare
    \/ DataAgentByField
    \/ DataAgentByFieldCompare
    \/ DataAgentUnsupported
    \/ VizAgent
    \/ Finish

\* data_agent, whichever branch it takes.
DataAgent ==
    \/ DataAgentByYear
    \/ DataAgentByYearCompare
    \/ DataAgentByField
    \/ DataAgentByFieldCompare
    \/ DataAgentUnsupported

\* A call is one synchronous sequence: once planner has returned, data_agent
\* runs, and once data_agent has returned, viz_agent runs.
SpecRun == Init /\ [][NextRun]_vars /\ WF_vars(DataAgent) /\ WF_vars(VizAgent)

----------------------------------------------------------------------------
(* Properties of the resolver *)

IsInt(x) == x.t = "int"

Missing(d, k) == d[k] \in {Absent, None}

\* The value planner works on for key k before the text is looked at: the
\* interpreted one, else the previous plan's.
Source(k) == IF Missing(interp, k) THEN Get(prev_plan, k) ELSE interp[k]

\* What int() accepts.
Coercible(x) == x.t \in {"int", "bool", "float"} \/ (x.t = "str" /\ x.s \in DOMAIN IntStrings)

CompareKeys == {"compare", "year_from", "year_to", "compare_year_from", "compare_year_to"}

\* Whether a pattern override sets key k for the turn's text.
SetByText(k) ==
    LET m == TextMatches[user_text]
    IN  \/ k \in CompareKeys /\ m.cmp # <<>>
        \/ k = "top_k" /\ m.tk # None
        \/ k = "field_score_min" /\ m.fs # None
        \/ k = "field_level" /\ m.fl # None
        \/ k = "doctype" /\ m.dt # None

NoOverride == \A k \in Keys : ~SetByText(k)

\* C1: in every plan planner returns, on the first turn or on a turn that got the
\* last plan back, compare is true exactly when both compare bounds are integers,
\* and when it is false both bounds are null; a turn whose compare is true but
\* one of whose bounds is missing or not coercible returns compare = false.
C1_CompareAllOrNothing ==
    pc = "planned" =>
        /\ plan["compare"] \in {True, False}
        /\ plan["compare"] = True <=>
                (IsInt(plan["compare_year_from"]) /\ IsInt(plan["compare_year_to"]))
        /\ plan["compare"] = False =>
                (plan["compare_year_from"] = None /\ plan["compare_year_to"] = None)
        /\ ( /\ ~SetByText("compare")
             /\ Truthy(Source("compare"))
             /\ ~(Coercible(Source("compare_year_from")) /\ Coercible(Source("compare_year_to"))) )
           => plan["compare"] = False

\* A fed-back turn with an active compare whose interpreted bound does not
\* coerce, resolved to compare = false.
C1_Witness ==
    /\ pc = "planned" /\ turn = 2
    /\ prev_plan["compare"] = True
    /\ interp["compare"] = True /\ interp["compare_year_from"] = StrV("n/a")
    /\ plan["compare"] = False /\ plan["compare_year_to"] = None

TextYears == {<<2020, 2022, 2023, 2024>>, <<2019, 2018, 2021, 2021>>}

HasRanges(p, y) ==
    /\ p["compare"] = True
    /\ p["year_from"] = IntV(y[1]) /\ p["year_to"] = IntV(y[2])
    /\ p["compare_year_from"] = IntV(y[3]) /\ p["compare_year_to"] = IntV(y[4])

\* C4: a text that holds two year ranges around vs/versus/compare resolves to
\* compare = true with the four years of the text, in order, whatever the
\* interpreted object and the previous plan hold; and whenever the compare
\* pattern matches, the five fields are the captured numbers.
C4_OverridePrecedence ==
    pc = "planned" =>
        /\ \A y \in TextYears, sep \in MatchingSeparators :
                user_text = RangeText(y[1], y[2], y[3], y[4], sep) => HasRanges(plan, y)
        /\ TextMatches[user_text].cmp # <<>> =>
                HasRanges(plan, TextMatches[user_text].cmp)

\* A matching text on a turn whose interpreted object says compare = false and
\* whose previous plan holds other years.
C4_Witness ==
    /\ pc = "planned"
    /\ user_text = RangeText(2020, 2022, 2023, 2024, <<" ", "V", "S", ".", " ">>)
    /\ interp["compare"] = False /\ interp["compare_year_to"] = IntV(2024)
    /\ prev_plan["year_from"] = IntV(2021)
    /\ HasRanges(plan, <<2020, 2022, 2023, 2024>>)

StyleKeys == {"color", "mark"}

\* C5: on a turn that gets a resolved plan back, with a text no matcher finds
\* anything in and an interpreted object that sets style keys only, the plan
\* returned equals the previous plan in every key the object does not set.
C5_Inheritance ==
    ( /\ pc = "planned" /\ turn >= 2
      /\ NoOverride
      /\ \A k \in Keys \ StyleKeys : Missing(interp, k) )
    => \A k \in Keys : Missing(interp, k) => plan[k] = prev_plan[k]

\* A style-only turn on a plan with an active compare.
C5_Witness ==
    /\ pc = "planned" /\ turn >= 2
    /\ user_text = StyleText
    /\ interp = Dict("mark" :> StrV("line"))
    /\ prev_plan["compare"] = True /\ prev_plan["mark"] = StrV("bar")
    /\ plan["compare"] = True /\ plan["mark"] = StrV("line")
    /\ plan["compare_year_from"] = prev_plan["compare_year_from"]

\* C6: resolving a returned plan again, with the empty text, the plan itself as
\* previous plan and an interpreted object that holds no value (no key, or every
\* key null), returns the same dict: the same keys with the same values.
C6_Idempotence ==
    pc = "planned" =>
        /\ \A k \in Keys : plan[k] # Absent
        /\ planner(EmptyText, plan, EmptyDict) = plan
        /\ planner(EmptyText, plan, [k \in Keys |-> None]) = plan

\* The repeated turn itself, on a plan that is not the default one.
C6_Witness ==
    /\ pc = "planned" /\ turn = 2
    /\ user_text = EmptyText /\ interp = EmptyDict
    /\ prev_plan["compare"] = True /\ prev_plan["top_k"] = IntV(2)
    /\ plan = prev_plan

\* C7: the plan returned holds one of the two supported chart types: the
\* interpreted one, else the previous plan's when it holds one, else
\* papers_by_year.
C7_ChartTypeSupported ==
    pc = "planned" =>
        /\ plan["chart_type"].t = "str" /\ plan["chart_type"].s \in ChartTypes
        /\ ~Truthy(Get(interp, "chart_type")) =>
                plan["chart_type"] =
                    IF ~Missing(prev_plan, "chart_type") THEN prev_plan["chart_type"]
                    ELSE StrV("papers_by_year")

\* The defaults the documentation lists.
DocumentedDefaults ==
    [year_from |-> IntV(2020), year_to |-> IntV(2024), doctype |-> None,
     field_level |-> IntV(1), field_score_min |-> FloatV(30), top_k |-> IntV(25),
     color |-> None, mark |-> StrV("bar"), compare |-> False,
     compare_year_from |-> None, compare_year_to |-> None]

\* C10: every key other than chart_type that is missing or null in the
\* interpreted object and in the previous plan (or there is none), and that no
\* pattern override sets, holds its documented default in the plan returned.
C10_DefaultFill ==
    pc = "planned" =>
        \A k \in InheritKeys :
            (Missing(interp, k) /\ Missing(prev_plan, k) /\ ~SetByText(k)) =>
                plan[k] = DocumentedDefaults[k]

\* A turn with a previous plan that lacks top_k and year_to and an interpreted
\* object that holds them as null, returning 25 and 2024.
C10_Witness ==
    /\ pc = "planned"
    /\ DictTruthy(prev_plan) /\ prev_plan["top_k"] = Absent /\ prev_plan["year_to"] = Absent
    /\ interp["top_k"] = None /\ interp["year_to"] = None
    /\ user_text = EmptyText
    /\ plan["top_k"] = IntV(25) /\ plan["year_to"] = IntV(2024)


----------------------------------------------------------------------------
(* Properties of the data aggregator and of the renderer *)

\* data_agent has returned for the plan planner gave it.
Aggregated(branch) ==
    /\ pc \in {"aggregated", "rendered"}
    /\ plan # EmptyDict
    /\ plan["chart_type"] = StrV(branch)

\* The rows of a group in the payload, in the payload's order.
GroupRows(g) == SelectSeq(payload.data, LAMBDA r : r.group = g)

\* rows is the dense series of [year_from, year_to] over the backend's rows.
Dense(rows, year_from, year_to, backend) ==
    /\ Len(rows) = year_to - year_from + 1
    /\ \A i \in 1..Len(rows) : rows[i].year = year_from + i - 1
    /\ \A i \in 1..(Len(rows) - 1) : rows[i].year < rows[i + 1].year
    /\ \A y \in year_from..year_to :
        \E i \in 1..Len(rows) :
            /\ rows[i].year = y
            /\ \/ \E j \in 1..Len(backend) : backend[j] = <<y, rows[i].n_papers>>
               \/ rows[i].n_papers = 0 /\ \A j \in 1..Len(backend) : backend[j][1] # y

\* C3 (densification): whenever year_from <= year_to, the series data_agent
\* returns for a window has exactly year_to - year_from + 1 rows, one for each
\* year of the window in strictly ascending order, with the backend's count for
\* a year the backend returned and 0 for a year it left out; this for the one
\* window of a plain year chart and for both windows of a compare year chart.
C3_Densification ==
    Aggregated("papers_by_year") =>
        IF Truthy(plan["compare"])
        THEN /\ plan["year_from"].n <= plan["year_to"].n =>
                    Dense(GroupRows("A"), plan["year_from"].n, plan["year_to"].n, rows_a)
             /\ plan["compare_year_from"].n <= plan["compare_year_to"].n =>
                    Dense(GroupRows("B"), plan["compare_year_from"].n, plan["compare_year_to"].n, rows_b)
        ELSE plan["year_from"].n <= plan["year_to"].n =>
                    Dense(payload.data, plan["year_from"].n, plan["year_to"].n, rows_a)

\* A window of three years of which the backend returned the last and the first,
\* in that order: the year between them is filled with 0.
C3_Witness ==
    /\ Aggregated("papers_by_year")
    /\ ~Truthy(plan["compare"])
    /\ rows_a = << <<2023, 1>>, <<2021, 2>> >>
    /\ payload.data = <<[year |-> 2021, n_papers |-> 2], [year |-> 2022, n_papers |-> 0],
                        [year |-> 2023, n_papers |-> 1]>>

\* The count of a label in a backend result, 0 when the label is not in it.
CountOf(backend, f) ==
    IF \E j \in 1..Len(backend) : backend[j][1] = f
    THEN CHOOSE j \in 1..Len(backend) : backend[j][1] = f
    ELSE 0

CountIn(backend, f) == IF CountOf(backend, f) = 0 THEN 0 ELSE backend[CountOf(backend, f)][2]

\* f ranks strictly below g by (A + B, A, B).
RanksBelow(f, g) ==
    LET af == CountIn(rows_a, f)
        bf == CountIn(rows_b, f)
        ag == CountIn(rows_a, g)
        bg == CountIn(rows_b, g)
    IN  \/ af + bf < ag + bg
        \/ af + bf = ag + bg /\ af < ag
        \/ af + bf = ag + bg /\ af = ag /\ bf < bg

UnionLabels == {rows_a[j][1] : j \in 1..Len(rows_a)} \cup {rows_b[j][1] : j \in 1..Len(rows_b)}

\* C2 (label compare ranking): for a compare field chart with top_k >= 0, the
\* payload has min(top_k, size of the union) rows of group "A" followed by as
\* many rows of group "B"; the labels of the two halves are the same in the same
\* order, are distinct labels of the union, are in descending order of
\* (A + B, A, B), and no label left out ranks above a label kept; every row
\* carries its group's count of its label, 0 when the group lacks the label.
C2_LabelCompareRanking ==
    (Aggregated("papers_by_field") /\ Truthy(plan["compare"]) /\ plan["top_k"].n >= 0) =>
        LET d == payload.data
            m == IF plan["top_k"].n < Cardinality(UnionLabels)
                 THEN plan["top_k"].n ELSE Cardinality(UnionLabels)
            kept == {d[i].field : i \in 1..m}
        IN  /\ Len(d) = 2 * m
            /\ \A i \in 1..m :
                /\ d[i].group = "A"
                /\ d[m + i].group = "B"
                /\ d[m + i].field = d[i].field
                /\ d[i].field \in UnionLabels
                /\ d[i].n_papers = CountIn(rows_a, d[i].field)
                /\ d[m + i].n_papers = CountIn(rows_b, d[i].field)
            /\ \A i, j \in 1..m : i < j =>
                /\ d[i].field # d[j].field
                /\ ~RanksBelow(d[i].field, d[j].field)
            /\ \A f \in UnionLabels \ kept : \A i \in 1..m : ~RanksBelow(d[i].field, f)

\* A = {x: 2, y: 1}, B = {x: 1, z: 2}, top_k = 2: x (3) and z (2) are kept in
\* that order, y (1) is in no row, and z has count 0 in group A.
C2_Witness ==
    /\ Aggregated("papers_by_field")
    /\ Truthy(plan["compare"])
    /\ plan["top_k"] = IntV(2)
    /\ rows_a = << <<"x", 2>>, <<"y", 1>> >>
    /\ rows_b = << <<"z", 2>>, <<"x", 1>> >>
    /\ payload.data = <<[group |-> "A", field |-> "x", n_papers |-> 2],
                        [group |-> "A", field |-> "z", n_papers |-> 0],
                        [group |-> "B", field |-> "x", n_papers |-> 1],
                        [group |-> "B", field |-> "z", n_papers |-> 2]>>

SupportedChartTypes == {StrV("papers_by_year"), StrV("papers_by_field")}

\* C8 (unsupported chart type is fatal): once data_agent has been called with a
\* plan whose chart_type is neither supported value, it has raised a ValueError
\* naming that value, no backend query was issued, no rows and no payload were
\* returned and nothing was rendered; once viz_agent has been called with a
\* payload of such a chart_type, it has raised a ValueError naming the value and
\* returned no descriptor.
C8_UnsupportedIsFatal ==
    /\ (plan # EmptyDict /\ pc # "planned" /\ plan["chart_type"] \notin SupportedChartTypes) =>
            /\ pc = "raised"
            /\ err = [type |-> "ValueError", where |-> "data_agent", value |-> plan["chart_type"]]
            /\ calls = <<>>
            /\ rows_a = <<>> /\ rows_b = <<>>
            /\ payload = NoPayload
            /\ out = NoOut
    /\ (plan = EmptyDict /\ pc # "aggregated" /\ payload.chart_type \notin SupportedChartTypes) =>
            /\ pc = "raised"
            /\ err = [type |-> "ValueError", where |-> "viz_agent", value |-> payload.chart_type]
            /\ out = NoOut

\* data_agent has raised for a plan with chart_type "pie".
C8_Witness ==
    /\ plan # EmptyDict
    /\ plan["chart_type"] = StrV("pie")
    /\ pc = "raised"
    /\ err.where = "data_agent"
    /\ calls = <<>>

\* C9 (selection keying): the descriptor viz_agent returns has exactly one
\* selection parameter; its fields are the category axis alone without compare
\* and (group, category) with compare, for both chart types.
C9_SelectionKeying ==
    pc = "rendered" =>
        /\ Len(out.params) = 1
        /\ out.params[1].select.fields =
                IF Truthy(payload.plan["compare"])
                THEN <<"group", Category(Branch(payload.chart_type))>>
                ELSE <<Category(Branch(payload.chart_type))>>


----------------------------------------------------------------------------
(* Mark validation *)

ValidMark(x) == x.t = "str" /\ x.s \in MarkTypes

\* C11 (mark validation): the plan planner returns has mark "bar", "line" or
\* "area"; it is the interpreted mark, or with none interpreted the previous
\* plan's, when that value is one of the three, and "bar" for every other value
\* (an empty or blank string, another string, a non-string, none at all).
C11_MarkValidation ==
    pc = "planned" =>
        /\ ValidMark(plan["mark"])
        /\ plan["mark"] = IF ValidMark(Source("mark")) THEN Source("mark") ELSE StrV("bar")

\* No mark was interpreted and the previous plan's mark is "scatter": the plan's is "bar".
C11_Witness ==
    /\ pc = "planned"
    /\ Missing(interp, "mark")
    /\ prev_plan["mark"] = StrV("scatter")
    /\ plan["mark"] = StrV("bar")


----------------------------------------------------------------------------
(* The calls of one run_multi_agent *)

BackendNames == {"papers_by_year", "papers_by_field"}

\* Call i of the log is the backend call of the plan's chart type for the window.
CallFor(i, year_from, year_to) ==
    /\ calls[i][1] = plan["chart_type"].s
    /\ calls[i][2] = year_from.n
    /\ calls[i][3] = year_to.n

\* The calls made so far are what the position in the call allows.
CallsInOrder ==
    /\ pc = "idle" => calls = <<>>
    /\ pc # "idle" =>
        /\ Len(calls) >= 1
        /\ calls[1] = <<"interpret">>
        /\ \A i \in 2..Len(calls) : calls[i][1] \in BackendNames
    /\ pc = "planned" => Len(calls) = 1 /\ payload = NoPayload /\ out = NoOut
    /\ pc \in {"aggregated", "rendered"} =>
        /\ plan["chart_type"] \in SupportedChartTypes
        /\ Len(calls) = IF Truthy(plan["compare"]) THEN 3 ELSE 2
        /\ CallFor(2, plan["year_from"], plan["year_to"])
        /\ Truthy(plan["compare"]) => CallFor(3, plan["compare_year_from"], plan["compare_year_to"])
        /\ payload.plan = plan
        /\ (pc = "aggregated") = (out = NoOut)
    /\ pc = "raised" =>
        /\ Len(calls) = 1
        /\ payload = NoPayload
        /\ out = NoOut
        /\ err.where = "planner" => plan = EmptyDict /\ err.type \in {"APIError", "JSONDecodeError"}
        /\ err.where = "data_agent" => plan["chart_type"] \notin SupportedChartTypes

----------------------------------------------------------------------------
(* top_k as an upper bound *)

\* C13 (top_k is an upper bound on categories): the rows data_agent returns for
\* a compare field chart of a plan planner returned hold at most top_k distinct
\* labels, whatever the two backend results; a top_k below 0 is read as a bound
\* of 0 labels, so that returning no row satisfies it.
C13_TopKUpperBound ==
    (Aggregated("papers_by_field") /\ Truthy(plan["compare"])) =>
        Cardinality({payload.data[i].field : i \in 1..Len(payload.data)}) <= Max(plan["top_k"].n, 0)

====
